---- MODULE Spec2Model ----
(***************************************************************************)
(* A model of mxnet's Symbol (src/symbol/symbol.cc): the shared-pointer    *)
(* graph of Nodes, the Symbols whose heads point into it, and the public   *)
(* operations Copy, operator[], Compose (positional and keyword),          *)
(* operator(), Grad, CreateGroup and the const queries DFSVisit,           *)
(* ListArguments, ListReturns and ToStaticGraph.                           *)
(*                                                                         *)
(* The heap `nodes` is a sequence of Node records; a shared_ptr<Node> is   *)
(* the position of the node in the heap and 0 is the null pointer.  A      *)
(* DataEntry is a record [source, index] with a 0-based output index, as   *)
(* in the C++.  A Symbol is its heads_ : a sequence of DataEntry.          *)
(***************************************************************************)
EXTENDS Integers, Sequences, FiniteSets, TLC

VARIABLES nodes, syms, calls

vars == <<nodes, syms, calls>>

(***************************************************************************)
(* Bounds of the exploration.                                              *)
(***************************************************************************)
MaxCalls == 2
MaxArgs == 2
MaxGradNodes == 1

(***************************************************************************)
(* The operator table (OperatorProperty is an external collaborator).      *)
(* Operator 1 has one visible return and the declared arguments            *)
(* data, weight; operator 2 has two visible returns and one argument.      *)
(* Operator 0 stands for op == nullptr.                                    *)
(***************************************************************************)
OpListArguments == << <<"data", "weight">>, <<"data">> >>
OpListReturns == << <<"output">>, <<"out0", "out1">> >>
Ops == DOMAIN OpListArguments
NumVisibleReturns(op) == Len(OpListReturns[op])

ComposeNames == {"", "fc"}
KwKeys == {"data", "weight"}
WrtNames == {"x", "data"}

(***************************************************************************)
(* Sequence helpers.                                                       *)
(***************************************************************************)
Range(s) == {s[i] : i \in 1..Len(s)}
\* A variant that keeps the order.
Unreversed(s) == s

Reverse(s) == [i \in 1..Len(s) |-> s[Len(s) + 1 - i]]
IndexOf(s, e) == CHOOSE i \in 1..Len(s) : s[i] = e
NoDuplicates(s) == \A i, j \in 1..Len(s) : s[i] = s[j] => i = j
SeqsUpTo(S, n) == UNION {[1..k -> S] : k \in 0..n}

(***************************************************************************)
(* struct Symbol::Node and DataEntry.                                      *)
(***************************************************************************)
Node(op, name) ==
  [op |-> op, name |-> name, inputs |-> <<>>, backward_source_node |-> 0]

DataEntry(source, index) == [source |-> source, index |-> index]

node_is_atomic(H, n) == Len(H[n].inputs) = 0 /\ H[n].op # 0

is_variable(H, n) == H[n].op = 0 /\ H[n].backward_source_node = 0

is_atomic(H, s) == Len(s) = 1 /\ node_is_atomic(H, s[1].source)

NumReturns(s) == Len(s)

Sources(entries) == [i \in 1..Len(entries) |-> entries[i].source]

(***************************************************************************)
(* Symbol::DFSVisit.  The explicit stack holds node pointers; a node is    *)
(* inserted into `visited` when it is pushed.  The result is the sequence  *)
(* of nodes in the order fvisit is called on them.                         *)
(***************************************************************************)
RECURSIVE PushUnvisited(_, _, _)
PushUnvisited(stack, visited, ptrs) ==
  IF ptrs = <<>> THEN [stack |-> stack, visited |-> visited]
  ELSE LET ptr == Head(ptrs)
       IN IF ptr \notin visited
          THEN PushUnvisited(Append(stack, ptr), visited \cup {ptr}, Tail(ptrs))
          ELSE PushUnvisited(stack, visited, Tail(ptrs))

RECURSIVE DFSLoop(_, _, _, _)
DFSLoop(H, stack, visited, order) ==
  IF stack = <<>> THEN order
  ELSE LET back == stack[Len(stack)]
           p == PushUnvisited(SubSeq(stack, 1, Len(stack) - 1), visited,
                              Reverse(Sources(H[back].inputs)))
       IN DFSLoop(H, p.stack, p.visited, Append(order, back))

\* A variant that pushes every head without asking whether its node is
\* already on the stack.
DFSVisitPushingEveryHead(H, s) ==
  DFSLoop(H, Sources(s), Range(Sources(s)), <<>>)

DFSVisit(H, s) ==
  LET p == PushUnvisited(<<>>, {}, Sources(s))
  IN DFSLoop(H, p.stack, p.visited, <<>>)

(***************************************************************************)
(* Symbol::Copy.  One new node per visited node, allocated in visiting     *)
(* order; the constructor takes the operator (cloned) and the name only,   *)
(* so backward_source_node of a new node stays null.                       *)
(***************************************************************************)
\* Variants of Copy: one that hands back the same heads, one that copies
\* the head nodes only and lets the copies keep the inputs of the originals.
CopySharingAll(H, s) == [nodes |-> H, sym |-> s]

CopyHeadsOnly(H, s) ==
  LET heads == PushUnvisited(<<>>, {}, Sources(s)).stack
      old_new(ptr) == Len(H) + IndexOf(heads, ptr)
  IN [nodes |-> H \o [i \in 1..Len(heads) |-> H[heads[i]]],
      sym |-> [h \in 1..Len(s) |-> DataEntry(old_new(s[h].source), s[h].index)]]

Copy(H, s) ==
  LET order == DFSVisit(H, s)
      old_new(ptr) == Len(H) + IndexOf(order, ptr)
      made == [i \in 1..Len(order) |->
                 [Node(H[order[i]].op, H[order[i]].name) EXCEPT
                    !.inputs = [j \in 1..Len(H[order[i]].inputs) |->
                                  DataEntry(old_new(H[order[i]].inputs[j].source),
                                            H[order[i]].inputs[j].index)]]]
  IN [nodes |-> H \o made,
      sym |-> [h \in 1..Len(s) |-> DataEntry(old_new(s[h].source), s[h].index)]]

(***************************************************************************)
(* Symbol::ListArguments, Symbol::ListReturns, Symbol::FindDuplicateArgs.  *)
(***************************************************************************)
RECURSIVE VariablesOf(_, _)
VariablesOf(H, order) ==
  IF order = <<>> THEN <<>>
  ELSE IF is_variable(H, Head(order))
       THEN <<Head(order)>> \o VariablesOf(H, Tail(order))
       ELSE VariablesOf(H, Tail(order))

NamesOf(H, ptrs) == [i \in 1..Len(ptrs) |-> H[ptrs[i]].name]

ListArguments(H, s) ==
  IF is_atomic(H, s) THEN OpListArguments[H[s[1].source].op]
  ELSE NamesOf(H, VariablesOf(H, DFSVisit(H, s)))

\* head.source->op->ListReturns() dereferences op: it is defined only when
\* every head that is not a variable has an operator.
ListReturnsDefined(H, s) ==
  \A h \in 1..Len(s) : is_variable(H, s[h].source) \/ H[s[h].source].op # 0

ListReturns(H, s) ==
  [h \in 1..Len(s) |->
     IF is_variable(H, s[h].source) THEN H[s[h].source].name
     ELSE LET hname == H[s[h].source].name
              rname == OpListReturns[H[s[h].source].op][s[h].index + 1]
          IN IF Len(hname) = 0 THEN rname ELSE hname \o "_" \o rname]

Occurrences(names, name) == Cardinality({i \in 1..Len(names) : names[i] = name})

FindDuplicateArgs(H, s) ==
  LET names == NamesOf(H, VariablesOf(H, DFSVisit(H, s)))
      counts == {Occurrences(names, names[i]) : i \in 1..Len(names)} \cup {1}
  IN CHOOSE m \in counts : \A c \in counts : c <= m

(***************************************************************************)
(* Symbol::ToStaticGraph.  Canonical ids are 0-based; node id k is         *)
(* g.nodes[k + 1].  node_index is an unordered_map read with operator[],   *)
(* which yields 0 for a pointer that was never visited.                    *)
(***************************************************************************)
node_index(order, ptr) ==
  IF ptr \in Range(order) THEN IndexOf(order, ptr) - 1 ELSE 0

ToStaticGraph(H, s) ==
  LET order == DFSVisit(H, s)
  IN [nodes |->
        [k \in 1..Len(order) |->
           [op |-> H[order[k]].op,
            backward_source_id |->
              IF H[order[k]].backward_source_node # 0
              THEN node_index(order, H[order[k]].backward_source_node)
              ELSE -1,
            name |-> H[order[k]].name,
            inputs |-> [j \in 1..Len(H[order[k]].inputs) |->
                          [source_id |-> node_index(order, H[order[k]].inputs[j].source),
                           index |-> H[order[k]].inputs[j].index]]]],
      arg_nodes |-> [i \in 1..Len(VariablesOf(H, order)) |->
                       IndexOf(order, VariablesOf(H, order)[i]) - 1],
      heads |-> [h \in 1..Len(s) |->
                   [source_id |-> node_index(order, s[h].source),
                    index |-> s[h].index]]]

(***************************************************************************)
(* The outcome of a mutating call: ok, or the failed CHECK, and the heap   *)
(* the call leaves behind (LOG(FATAL) throws; nothing is rolled back).     *)
(***************************************************************************)
Done(H) == [ok |-> TRUE, err |-> "", nodes |-> H]
Fatal(err, H) == [ok |-> FALSE, err |-> err, nodes |-> H]

\* What a read of heads_[0] of a Symbol without heads, or of arg_grads[i]
\* beyond its size, can yield: a fault (the null entry), or a stale entry
\* that points at some node.
Fault == DataEntry(0, 0)
WildReads(H) == {Fault} \cup {DataEntry(n, 0) : n \in 1..Len(H)}

FirstHead(a, wild) == IF Len(a) > 0 THEN a[1] ELSE wild

\* KeywordArgumentMismatch: TRUE when it reaches LOG(FATAL).
KeywordArgumentMismatch(user_args, args) ==
  \E key \in user_args : key \notin Range(args)

\* The input edges (node, slot) met by a DFSVisit whose visitor walks
\* node->inputs, in the order the visitor meets them.
RECURSIVE InputEdges(_, _)
InputEdges(H, order) ==
  IF order = <<>> THEN <<>>
  ELSE [i \in 1..Len(H[Head(order)].inputs) |-> [node |-> Head(order), slot |-> i]]
       \o InputEdges(H, Tail(order))

EdgeSource(H, e) == H[e.node].inputs[e.slot].source

VariableEdges(H, s) ==
  SelectSeq(InputEdges(H, DFSVisit(H, s)),
            LAMBDA e : is_variable(H, EdgeSource(H, e)))

\* *(kv.first) = *(kv.second) for every pair of the replace plan.
RECURSIVE RunReplacement(_, _)
RunReplacement(H, replace_plan) ==
  IF replace_plan = <<>> THEN H
  ELSE LET kv == Head(replace_plan)
       IN RunReplacement([H EXCEPT ![kv.node].inputs[kv.slot] = kv.target],
                         Tail(replace_plan))

(***************************************************************************)
(* Symbol::Compose(args, name), lines 226-282.  `args` is the sequence of  *)
(* argument Symbols.  The visitor of the composite branch: target 0 is     *)
(* the nullptr target of a variable met after the arguments ran out.       *)
(***************************************************************************)
RECURSIVE PositionalPlan(_, _, _, _, _, _)
PositionalPlan(H, edges, nargs, arg_counter, replace_map, replace_plan) ==
  IF edges = <<>> THEN [arg_counter |-> arg_counter, replace_plan |-> replace_plan]
  ELSE LET e == Head(edges)
           v == EdgeSource(H, e)
       IN IF v \in DOMAIN replace_map
          THEN PositionalPlan(H, Tail(edges), nargs, arg_counter, replace_map,
                              Append(replace_plan, [node |-> e.node, slot |-> e.slot,
                                                    arg |-> replace_map[v]]))
          ELSE IF arg_counter < nargs
          THEN PositionalPlan(H, Tail(edges), nargs, arg_counter + 1,
                              replace_map @@ (v :> arg_counter + 1),
                              Append(replace_plan, [node |-> e.node, slot |-> e.slot,
                                                    arg |-> arg_counter + 1]))
          ELSE PositionalPlan(H, Tail(edges), nargs, arg_counter + 1, replace_map,
                              Append(replace_plan, [node |-> e.node, slot |-> e.slot,
                                                    arg |-> 0]))

TupleCheckFails(args) == \E i \in 1..Len(args) : NumReturns(args[i]) = 1

ComposeArgs(H, s, args, name, wild) ==
  IF NumReturns(s) # 1 THEN Fatal("NotComposable", H)
  ELSE IF is_variable(H, s[1].source) THEN Fatal("NotComposable", H)
  ELSE
    LET head == s[1].source
        H1 == [H EXCEPT ![head].name = name]
        reads_wild == \E i \in 1..Len(args) : Len(args[i]) = 0
    IN IF TupleCheckFails(args) THEN Fatal("TupleArgument", H1)
       ELSE IF is_atomic(H1, s)
       THEN IF Len(args) # Len(OpListArguments[H1[head].op])
            THEN Fatal("ArityMismatch", H1)
            ELSE IF reads_wild /\ wild = Fault THEN Fatal("Fault", H1)
            ELSE Done([H1 EXCEPT ![head].inputs =
                         [i \in 1..Len(args) |-> FirstHead(args[i], wild)]])
       ELSE LET found == PositionalPlan(H1, VariableEdges(H1, s), Len(args),
                                        0, <<>>, <<>>)
                plan == [k \in 1..Len(found.replace_plan) |->
                           [node |-> found.replace_plan[k].node,
                            slot |-> found.replace_plan[k].slot,
                            target |-> FirstHead(args[found.replace_plan[k].arg], wild)]]
                plan_wild == \E k \in 1..Len(found.replace_plan) :
                               Len(args[found.replace_plan[k].arg]) = 0
            IN IF Len(args) # found.arg_counter THEN Fatal("ArityMismatch", H1)
               ELSE IF plan_wild /\ wild = Fault THEN Fatal("Fault", H1)
               ELSE Done(RunReplacement(H1, plan))

(***************************************************************************)
(* Symbol::Compose(kwargs, name), lines 284-367.  `kwargs` is a function   *)
(* from the keys to the argument Symbols.  In the atomic branch the        *)
(* placeholder variables are allocated in slot order; when the call fails  *)
(* inputs.clear() drops them again.                                        *)
(***************************************************************************)
\* A variant that forgets the group name.
PlaceholderNameBare(name, req) == req

PlaceholderName(name, req) == IF Len(name) = 0 THEN req ELSE name \o "_" \o req

ComposeKwargs(H, s, kwargs, name) ==
  IF NumReturns(s) # 1 THEN Fatal("NotComposable", H)
  ELSE IF is_variable(H, s[1].source) THEN Fatal("NotComposable", H)
  ELSE
    LET head == s[1].source
        H1 == [H EXCEPT ![head].name = name]
        keys == DOMAIN kwargs
    IN IF \E k \in keys : NumReturns(kwargs[k]) # 1 THEN Fatal("TupleArgument", H1)
       ELSE IF is_atomic(H1, s)
       THEN LET req_args == OpListArguments[H1[head].op]
                unbound == SelectSeq(req_args, LAMBDA r : r \notin keys)
                nmatched == Len(req_args) - Len(unbound)
                fresh(r) == Len(H1) + IndexOf(unbound, r)
                made == [i \in 1..Len(unbound) |-> Node(0, PlaceholderName(name, unbound[i]))]
                bound == [i \in 1..Len(req_args) |->
                            IF req_args[i] \in keys THEN kwargs[req_args[i]][1]
                            ELSE DataEntry(fresh(req_args[i]), 0)]
            IN IF nmatched = Cardinality(keys)
               THEN Done([H1 EXCEPT ![head].inputs = bound] \o made)
               ELSE IF KeywordArgumentMismatch(keys, ListArguments(H1, s))
                    THEN Fatal("UnmatchedKeyword", H1)
                    ELSE Done(H1)
       ELSE IF FindDuplicateArgs(H1, s) > 1 THEN Fatal("DuplicateArgumentName", H1)
       ELSE LET hits == SelectSeq(VariableEdges(H1, s),
                                  LAMBDA e : H1[EdgeSource(H1, e)].name \in keys)
                visited == {EdgeSource(H1, hits[k]) : k \in 1..Len(hits)}
                nmatched == Cardinality(visited)
                plan == [k \in 1..Len(hits) |->
                           [node |-> hits[k].node, slot |-> hits[k].slot,
                            target |-> kwargs[H1[EdgeSource(H1, hits[k])].name][1]]]
            IN IF nmatched = Cardinality(keys) THEN Done(RunReplacement(H1, plan))
               ELSE IF KeywordArgumentMismatch(keys, ListArguments(H1, s))
                    THEN Fatal("UnmatchedKeyword", H1)
                    ELSE Done(H1)

(***************************************************************************)
(* StaticGraph::MakeBackwardPass is not part of symbol.cc.  Its contract:  *)
(* it appends gradient nodes after the canonical nodes and returns, per    *)
(* canonical argument, the entry of a new node that realizes the           *)
(* argument's gradient.  A gradient node has no operator; its backward     *)
(* source, if any, is a forward operator node; its inputs point at nodes   *)
(* with smaller ids.  BackwardPasses(g) is the set of such results with    *)
(* at most MaxGradNodes new nodes of at most one input each.               *)
(***************************************************************************)
GradNodeName == "grad"

GradNodeChoices(g, id) ==
  {[op |-> 0, name |-> GradNodeName, backward_source_id |-> b, inputs |-> ins] :
     b \in {-1} \cup {k - 1 : k \in {j \in 1..Len(g.nodes) : g.nodes[j].op # 0}},
     ins \in {<<>>} \cup {<<[source_id |-> i, index |-> 0]>> : i \in 0..(id - 1)}}

BackwardPasses(g) ==
  LET num == Len(g.nodes)
  IN UNION {
       {[nodes |-> ns, arg_grads |-> ag] :
          ns \in {c \in [1..m -> GradNodeChoices(g, num + m - 1)] :
                    \A j \in 1..m : c[j] \in GradNodeChoices(g, num + j - 1)},
          ag \in [1..Len(g.arg_nodes) ->
                    {[source_id |-> num + j - 1, index |-> 0] : j \in 1..m}]} :
       m \in 1..MaxGradNodes}

(***************************************************************************)
(* Symbol::Grad, lines 383-425.  shared_node[id] is the node visited       *)
(* id-th for an id below num_nodes and the (id - num_nodes)-th new node    *)
(* otherwise.  arg_index maps a name to the last position it has in        *)
(* ListArguments().  The result is the outcome with the new Symbol.        *)
(***************************************************************************)
arg_index(arg_list, name) ==
  (CHOOSE i \in 1..Len(arg_list) :
     arg_list[i] = name /\ \A j \in (i + 1)..Len(arg_list) : arg_list[j] # name) - 1

Grad(H, s, wrt, pass, wild) ==
  LET g == ToStaticGraph(H, s)
      num_nodes == Len(g.nodes)
      order == DFSVisit(H, s)
      shared_node(id) == IF id < num_nodes THEN order[id + 1]
                         ELSE Len(H) + (id - num_nodes) + 1
      made == [j \in 1..Len(pass.nodes) |->
                 [op |-> 0,
                  name |-> pass.nodes[j].name,
                  inputs |-> [e \in 1..Len(pass.nodes[j].inputs) |->
                                DataEntry(shared_node(pass.nodes[j].inputs[e].source_id),
                                          pass.nodes[j].inputs[e].index)],
                  backward_source_node |->
                    IF pass.nodes[j].backward_source_id # -1
                    THEN shared_node(pass.nodes[j].backward_source_id)
                    ELSE 0]]
      arg_list == ListArguments(H, s)
      known(name) == name \in Range(arg_list)
      beyond(name) == arg_index(arg_list, name) >= Len(pass.arg_grads)
      head(name) ==
        IF beyond(name) THEN wild
        ELSE LET e == pass.arg_grads[arg_index(arg_list, name) + 1]
             IN DataEntry(shared_node(e.source_id), e.index)
      bad == {k \in 1..Len(wrt) : ~known(wrt[k]) \/ (beyond(wrt[k]) /\ wild = Fault)}
      first_bad == CHOOSE k \in bad : \A l \in bad : k <= l
  IN IF bad # {}
     THEN [ok |-> FALSE,
           err |-> IF known(wrt[first_bad]) THEN "Fault" ELSE "UnmatchedKeyword",
           nodes |-> H, sym |-> <<>>]
     ELSE [ok |-> TRUE, err |-> "", nodes |-> H \o made,
           sym |-> [k \in 1..Len(wrt) |-> head(wrt[k])]]

\* Does Grad read arg_grads beyond its size for some requested name?
GradReadsBeyond(H, s, wrt) ==
  \E k \in 1..Len(wrt) :
    /\ wrt[k] \in Range(ListArguments(H, s))
    /\ arg_index(ListArguments(H, s), wrt[k]) >= Len(ToStaticGraph(H, s).arg_nodes)

(***************************************************************************)
(* Symbol::operator[], Symbol::CreateVariable, Symbol::Create,             *)
(* Symbol::CreateGroup.                                                    *)
(***************************************************************************)
CreateVariable(H, name) ==
  [nodes |-> Append(H, Node(0, name)), sym |-> <<DataEntry(Len(H) + 1, 0)>>]

Create(H, op) ==
  [nodes |-> Append(H, Node(op, "")),
   sym |-> [i \in 1..NumVisibleReturns(op) |-> DataEntry(Len(H) + 1, i - 1)]]

RECURSIVE CreateGroup(_)
CreateGroup(symbols) ==
  IF symbols = <<>> THEN <<>> ELSE Head(symbols) \o CreateGroup(Tail(symbols))

IndexSymbol(s, index) == IF NumReturns(s) = 1 THEN s ELSE <<s[index + 1]>>

(***************************************************************************)
(* The state machine.  A run is a sequence of calls on the Symbols built   *)
(* so far: syms[i] is the i-th Symbol object of the program.  `calls`      *)
(* records every call made: its operation, operands, outcome, the heap     *)
(* and the Symbols before it (pre, presyms) and, for a query, what it      *)
(* returned (out).  A run ends at the first call that fails (LOG(FATAL)    *)
(* throws out of the calling sequence) and at the first query: the         *)
(* queries are const, so a query made earlier returns what it returns at   *)
(* the end of that prefix.                                                 *)
(***************************************************************************)
NoCall ==
  [op |-> "", ok |-> TRUE, err |-> "", target |-> 0, args |-> <<>>, kwargs |-> <<>>,
   name |-> "", wrt |-> <<>>, res |-> 0, pre |-> <<>>, presyms |-> <<>>, out |-> <<>>]

Call(op, target) ==
  [NoCall EXCEPT !.op = op, !.target = target, !.pre = nodes, !.presyms = syms]

last == IF calls = <<>> THEN NoCall ELSE calls[Len(calls)]

Queries == {"DFSVisit", "ListArguments", "ListReturns", "ToStaticGraph"}

Running == last.ok /\ last.op \notin Queries /\ Len(calls) < MaxCalls

SymIds == 1..Len(syms)

ArgSyms(ids) == [i \in 1..Len(ids) |-> syms[ids[i]]]

KwSyms(kw) == [k \in DOMAIN kw |-> syms[kw[k]]]

\* The initial program: x = Variable("x"); fc = Create(op 1); sp = Create(op 2);
\* z = fc(data = x).
InitProgram ==
  LET x == CreateVariable(<<>>, "x")
      fc == Create(x.nodes, 1)
      sp == Create(fc.nodes, 2)
      c == Copy(sp.nodes, fc.sym)
      z == ComposeKwargs(c.nodes, c.sym, [k \in {"data"} |-> x.sym], "")
  IN [nodes |-> z.nodes, syms |-> <<x.sym, fc.sym, sp.sym, c.sym>>]

\* The inputs of the calls.  Argument Symbols are those of the initial program.
ArgIds == DOMAIN InitProgram.syms
ArgLists == SeqsUpTo(ArgIds, MaxArgs)
KwargsMaps == UNION {[K -> ArgIds] : K \in SUBSET KwKeys}
WrtLists == {<<>>} \cup {<<n>> : n \in WrtNames}

Init ==
  /\ nodes = InitProgram.nodes
  /\ syms = InitProgram.syms
  /\ calls = <<>>

DoCopy ==
  /\ Running
  /\ \E t \in SymIds :
       LET r == Copy(nodes, syms[t])
       IN /\ nodes' = r.nodes
          /\ syms' = Append(syms, r.sym)
          /\ calls' = Append(calls, [Call("Copy", t) EXCEPT !.res = Len(syms) + 1])

DoIndex ==
  /\ Running
  /\ \E t \in SymIds, index \in 0..MaxArgs :
       IF index < NumReturns(syms[t])
       THEN /\ syms' = Append(syms, IndexSymbol(syms[t], index))
            /\ calls' = Append(calls, [Call("Index", t) EXCEPT !.res = Len(syms) + 1])
       ELSE /\ syms' = syms
            /\ calls' = Append(calls, [Call("Index", t) EXCEPT
                                         !.ok = FALSE, !.err = "IndexOutOfRange"])
  /\ UNCHANGED nodes

DoCreateGroup ==
  /\ Running
  /\ \E ids \in ArgLists :
       /\ syms' = Append(syms, CreateGroup(ArgSyms(ids)))
       /\ calls' = Append(calls, [Call("CreateGroup", 0) EXCEPT
                                    !.args = ids, !.res = Len(syms) + 1])
  /\ UNCHANGED nodes

DoComposeArgs ==
  /\ Running
  /\ \E t \in SymIds, ids \in ArgLists, name \in ComposeNames :
       \E wild \in IF \E i \in 1..Len(ids) : Len(syms[ids[i]]) = 0
                   THEN WildReads(nodes) ELSE {Fault} :
         LET r == ComposeArgs(nodes, syms[t], ArgSyms(ids), name, wild)
         IN /\ nodes' = r.nodes
            /\ calls' = Append(calls, [Call("ComposeArgs", t) EXCEPT
                                         !.args = ids, !.name = name,
                                         !.ok = r.ok, !.err = r.err])
  /\ UNCHANGED syms

DoComposeKwargs ==
  /\ Running
  /\ \E t \in SymIds, kw \in KwargsMaps, name \in ComposeNames :
       LET r == ComposeKwargs(nodes, syms[t], KwSyms(kw), name)
       IN /\ nodes' = r.nodes
          /\ calls' = Append(calls, [Call("ComposeKwargs", t) EXCEPT
                                       !.kwargs = kw, !.name = name,
                                       !.ok = r.ok, !.err = r.err])
  /\ UNCHANGED syms

\* operator(): Symbol s = this->Copy(); s.Compose(...); return s.  When
\* Compose throws, s and the nodes of the copy are destroyed.
DoCallArgs ==
  /\ Running
  /\ \E t \in SymIds, ids \in ArgLists, name \in ComposeNames :
       \E wild \in IF \E i \in 1..Len(ids) : Len(syms[ids[i]]) = 0
                   THEN WildReads(nodes) ELSE {Fault} :
         LET s == Copy(nodes, syms[t])
             r == ComposeArgs(s.nodes, s.sym, ArgSyms(ids), name, wild)
         IN /\ nodes' = IF r.ok THEN r.nodes ELSE nodes
            /\ syms' = IF r.ok THEN Append(syms, s.sym) ELSE syms
            /\ calls' = Append(calls, [Call("CallArgs", t) EXCEPT
                                         !.args = ids, !.name = name,
                                         !.ok = r.ok, !.err = r.err,
                                         !.res = IF r.ok THEN Len(syms) + 1 ELSE 0])

DoCallKwargs ==
  /\ Running
  /\ \E t \in SymIds, kw \in KwargsMaps, name \in ComposeNames :
       LET s == Copy(nodes, syms[t])
           r == ComposeKwargs(s.nodes, s.sym, KwSyms(kw), name)
       IN /\ nodes' = IF r.ok THEN r.nodes ELSE nodes
          /\ syms' = IF r.ok THEN Append(syms, s.sym) ELSE syms
          /\ calls' = Append(calls, [Call("CallKwargs", t) EXCEPT
                                       !.kwargs = kw, !.name = name,
                                       !.ok = r.ok, !.err = r.err,
                                       !.res = IF r.ok THEN Len(syms) + 1 ELSE 0])

\* A failed Grad drops the nodes it made.
DoGrad ==
  /\ Running
  /\ \E t \in SymIds, wrt \in WrtLists :
       \E pass \in BackwardPasses(ToStaticGraph(nodes, syms[t])) :
         \E wild \in IF GradReadsBeyond(nodes, syms[t], wrt)
                     THEN WildReads(nodes) ELSE {Fault} :
           LET r == Grad(nodes, syms[t], wrt, pass, wild)
           IN /\ nodes' = r.nodes
              /\ syms' = IF r.ok THEN Append(syms, r.sym) ELSE syms
              /\ calls' = Append(calls, [Call("Grad", t) EXCEPT
                                           !.wrt = wrt, !.ok = r.ok, !.err = r.err,
                                           !.res = IF r.ok THEN Len(syms) + 1 ELSE 0])

DoDFSVisit ==
  /\ Running
  /\ \E t \in SymIds :
       calls' = Append(calls, [Call("DFSVisit", t) EXCEPT
                                 !.out = DFSVisit(nodes, syms[t])])
  /\ UNCHANGED <<nodes, syms>>

DoListArguments ==
  /\ Running
  /\ \E t \in SymIds :
       calls' = Append(calls, [Call("ListArguments", t) EXCEPT
                                 !.out = ListArguments(nodes, syms[t])])
  /\ UNCHANGED <<nodes, syms>>

DoListReturns ==
  /\ Running
  /\ \E t \in SymIds :
       IF ListReturnsDefined(nodes, syms[t])
       THEN calls' = Append(calls, [Call("ListReturns", t) EXCEPT
                                      !.out = ListReturns(nodes, syms[t])])
       ELSE calls' = Append(calls, [Call("ListReturns", t) EXCEPT
                                      !.ok = FALSE, !.err = "Fault"])
  /\ UNCHANGED <<nodes, syms>>

DoToStaticGraph ==
  /\ Running
  /\ \E t \in SymIds :
       calls' = Append(calls, [Call("ToStaticGraph", t) EXCEPT
                                 !.out = ToStaticGraph(nodes, syms[t])])
  /\ UNCHANGED <<nodes, syms>>

Next ==
  \/ DoCopy
  \/ DoIndex
  \/ DoCreateGroup
  \/ DoComposeArgs
  \/ DoComposeKwargs
  \/ DoCallArgs
  \/ DoCallKwargs
  \/ DoGrad
  \/ DoDFSVisit
  \/ DoListArguments
  \/ DoListReturns
  \/ DoToStaticGraph

Spec == Init /\ [][Next]_vars

(***************************************************************************)
(* Vocabulary of the properties.  Reachable is the set of nodes reached    *)
(* from the heads through input edges, as a least fixed point.             *)
(***************************************************************************)
RECURSIVE Closure(_, _)
Closure(H, S) ==
  LET step == S \cup UNION {Range(Sources(H[n].inputs)) : n \in S}
  IN IF step = S THEN S ELSE Closure(H, step)

Reachable(H, s) == Closure(H, Range(Sources(s)))

\* The name and the input list of node n are the same in heaps G and H.
SameNode(G, H, n) == G[n].name = H[n].name /\ G[n].inputs = H[n].inputs

Intact(G, H, S) == \A n \in S : SameNode(G, H, n)

IsCall(c) == c.op \in {"CallArgs", "CallKwargs"}
IsCompose(c) == c.op \in {"ComposeArgs", "ComposeKwargs"}
IsPositional(c) == c.op \in {"ComposeArgs", "CallArgs"}
IsKeyword(c) == c.op \in {"ComposeKwargs", "CallKwargs"}

\* The nodes of the argument Symbols of call c, as they were when it was made.
ArgIdsOf(c) ==
  IF IsKeyword(c) THEN {c.kwargs[k] : k \in DOMAIN c.kwargs} ELSE Range(c.args)

ArgNodes(c) == UNION {Reachable(c.pre, c.presyms[i]) : i \in ArgIdsOf(c)}

(***************************************************************************)
(* C1.  operator() (either overload), whether it succeeds or fails,        *)
(* leaves every node reachable from the callee's heads with the name and   *)
(* the input list it had, and leaves the callee's heads as they were;      *)
(* the nodes of a result that existed before the call all belong to the    *)
(* supplied argument Symbols, so the results of two calls on the same op   *)
(* share no node made for the copies.                                      *)
(***************************************************************************)
C1_CallLeavesCalleeIntact ==
  IsCall(last) =>
    /\ Len(nodes) >= Len(last.pre)
    /\ Intact(nodes, last.pre, Reachable(last.pre, last.presyms[last.target]))
    /\ syms[last.target] = last.presyms[last.target]
    /\ last.ok =>
         /\ \A n \in Reachable(nodes, syms[last.res]) :
              n > Len(last.pre) \/ n \in ArgNodes(last)
         /\ \A i \in DOMAIN calls :
              (i < Len(calls) /\ IsCall(calls[i]) /\ calls[i].target = last.target) =>
                Reachable(nodes, syms[calls[i].res]) \cap Reachable(nodes, syms[last.res])
                  \subseteq ArgNodes(last)

\* A second successful call on the same composite op, whose result holds
\* both copied nodes and nodes of its arguments.
C1_Witness ==
  /\ IsCall(last) /\ last.ok
  /\ \E i \in DOMAIN calls :
       i < Len(calls) /\ IsCall(calls[i]) /\ calls[i].ok /\ calls[i].target = last.target
  /\ Len(last.presyms[last.target]) = 1
  /\ Len(last.pre[last.presyms[last.target][1].source].inputs) > 0
  /\ \E n \in Reachable(nodes, syms[last.res]) : n <= Len(last.pre)
  /\ \E n \in Reachable(nodes, syms[last.res]) : n > Len(last.pre)

\* The variant of node n: a gradient node carries a backward source.
Variant(H, n) ==
  IF H[n].backward_source_node # 0 THEN "gradient"
  ELSE IF H[n].op = 0 THEN "variable" ELSE "operator"

\* A bijection that preserves the head order and the ordered input edges
\* maps the k-th node DFSVisit meets in one graph to the k-th node it meets
\* in the other, so it exists exactly when that map preserves the structure.
Isomorphic(H, s, c) ==
  LET os == DFSVisit(H, s)
      oc == DFSVisit(H, c)
      f(n) == oc[IndexOf(os, n)]
  IN /\ Len(os) = Len(oc)
     /\ Len(s) = Len(c)
     /\ \A h \in 1..Len(s) : c[h] = DataEntry(f(s[h].source), s[h].index)
     /\ \A i \in 1..Len(os) :
          /\ Variant(H, os[i]) = Variant(H, oc[i])
          /\ H[os[i]].name = H[oc[i]].name
          /\ Len(H[os[i]].inputs) = Len(H[oc[i]].inputs)
          /\ \A j \in 1..Len(H[os[i]].inputs) :
               H[oc[i]].inputs[j] = DataEntry(f(H[os[i]].inputs[j].source),
                                              H[os[i]].inputs[j].index)
          /\ H[os[i]].backward_source_node \in Range(os) =>
               H[oc[i]].backward_source_node = f(H[os[i]].backward_source_node)

(***************************************************************************)
(* C2.  S.Copy() shares no node with S and is structurally identical to    *)
(* S, gradient nodes and their backward-source links included, so that     *)
(* ListArguments and ListReturns of the copy are those of S.               *)
(***************************************************************************)
C2_CopyIsStructurallyIdentical ==
  last.op = "Copy" =>
    LET s == syms[last.target]
        c == syms[last.res]
    IN /\ Reachable(nodes, s) \cap Reachable(nodes, c) = {}
       /\ Isomorphic(nodes, s, c)
       /\ ListArguments(nodes, c) = ListArguments(nodes, s)
       /\ ListReturnsDefined(nodes, c) = ListReturnsDefined(nodes, s)
       /\ ListReturnsDefined(nodes, s) => ListReturns(nodes, c) = ListReturns(nodes, s)

\* The part of C2 that the code keeps: a copy of a graph without gradient
\* nodes is disjoint from it and structurally identical to it.
C2_CopyWithoutGradientNodes ==
  (last.op = "Copy" /\ \A n \in Reachable(nodes, syms[last.target]) :
                          nodes[n].backward_source_node = 0) =>
    /\ Reachable(nodes, syms[last.target]) \cap Reachable(nodes, syms[last.res]) = {}
    /\ Isomorphic(nodes, syms[last.target], syms[last.res])

\* A copy of G = z.Grad(wrt) whose head, a gradient node in G, is a
\* variable in the copy.
C2_Witness ==
  /\ last.op = "Copy"
  /\ NumReturns(syms[last.target]) = 1
  /\ Variant(nodes, syms[last.target][1].source) = "gradient"
  /\ Variant(nodes, syms[last.res][1].source) = "variable"

\* Did the composition target of call c pass the two checks made before
\* anything is written (one return, head not a variable)?
Composable(c) ==
  /\ NumReturns(c.presyms[c.target]) = 1
  /\ ~is_variable(c.pre, c.presyms[c.target][1].source)

ArgSymsOf(c) == [i \in 1..Len(c.args) |-> c.presyms[c.args[i]]]

\* The distinct variable nodes that are targets of input edges of the
\* composition target of call c.
EdgeVariables(c) ==
  LET edges == VariableEdges(c.pre, c.presyms[c.target])
  IN {EdgeSource(c.pre, edges[k]) : k \in 1..Len(edges)}

ArityMatches(c) ==
  IF is_atomic(c.pre, c.presyms[c.target])
  THEN Len(c.args) = Len(OpListArguments[c.pre[c.presyms[c.target][1].source].op])
  ELSE Len(c.args) = Cardinality(EdgeVariables(c))

(***************************************************************************)
(* C3.  Positional Compose accepts an argument exactly when it has one     *)
(* return: with every argument of one return and matching arity it         *)
(* succeeds, with some argument of more than one return it fails with the  *)
(* tuple-argument error.                                                   *)
(***************************************************************************)
C3_SingleReturnArgumentsAccepted ==
  (last.op = "ComposeArgs" /\ Composable(last)) =>
    /\ ((\A i \in 1..Len(last.args) : NumReturns(ArgSymsOf(last)[i]) = 1)
          /\ ArityMatches(last)) => last.ok
    /\ (\E i \in 1..Len(last.args) : NumReturns(ArgSymsOf(last)[i]) > 1) =>
         (~last.ok /\ last.err = "TupleArgument")

\* fc.Compose([a, b], name) with a and b of one return each, rejected as
\* tuple arguments.
C3_Witness ==
  /\ last.op = "ComposeArgs" /\ Composable(last)
  /\ is_atomic(last.pre, last.presyms[last.target])
  /\ Len(last.args) = 2 /\ ArityMatches(last)
  /\ \A i \in 1..Len(last.args) : NumReturns(ArgSymsOf(last)[i]) = 1
  /\ ~last.ok /\ last.err = "TupleArgument"

(***************************************************************************)
(* C4.  A Compose call that fails leaves no mutation visible: every node   *)
(* reachable from the target's head keeps its name and its input list, so  *)
(* ListArguments and ListReturns of the target are unchanged.              *)
(***************************************************************************)
C4_FailedComposeLeavesNoMutation ==
  (IsCompose(last) /\ ~last.ok) =>
    LET s == last.presyms[last.target]
    IN /\ Intact(nodes, last.pre, Reachable(last.pre, s))
       /\ ListArguments(nodes, s) = ListArguments(last.pre, s)
       /\ ListReturnsDefined(last.pre, s) =>
            (ListReturnsDefined(nodes, s) /\ ListReturns(nodes, s) = ListReturns(last.pre, s))

\* What a failed Compose does keep: the input lists.
C4_FailedComposeKeepsEdges ==
  (IsCompose(last) /\ ~last.ok) =>
    \A n \in 1..Len(last.pre) : nodes[n].inputs = last.pre[n].inputs

\* A keyword Compose that failed on an unmatched key and left the head
\* renamed.
C4_Witness ==
  /\ last.op = "ComposeKwargs" /\ ~last.ok /\ last.err = "UnmatchedKeyword"
  /\ nodes[last.presyms[last.target][1].source].name
       # last.pre[last.presyms[last.target][1].source].name

(***************************************************************************)
(* C5.  Positional Compose on a composite single-head target succeeds iff  *)
(* the number of distinct variable nodes found as input-edge targets       *)
(* equals args.size(); each such variable consumes one argument in         *)
(* traversal order and every edge to it is rewritten to that argument's    *)
(* head, so that afterwards no input edge of a node reachable before the   *)
(* call targets an original variable of the target graph.                  *)
(***************************************************************************)
C5_PositionalCompositeCompose ==
  (last.op = "ComposeArgs" /\ Composable(last)
     /\ ~is_atomic(last.pre, last.presyms[last.target])) =>
    LET s == last.presyms[last.target]
        edges == VariableEdges(last.pre, s)
        vars_found == VariablesOf(last.pre, [k \in 1..Len(edges) |-> EdgeSource(last.pre, edges[k])])
        first(v) == CHOOSE k \in 1..Len(edges) :
                      /\ EdgeSource(last.pre, edges[k]) = v
                      /\ \A l \in 1..(k - 1) : EdgeSource(last.pre, edges[l]) # v
        rank(v) == Cardinality({w \in EdgeVariables(last) : first(w) <= first(v)})
    IN /\ last.ok <=> (Cardinality(EdgeVariables(last)) = Len(last.args))
       /\ last.ok =>
            \A k \in 1..Len(edges) :
              nodes[edges[k].node].inputs[edges[k].slot] =
                ArgSymsOf(last)[rank(EdgeSource(last.pre, edges[k]))][1]

\* The rewriting of C5 where the call does succeed.
C5_RewritesWhereItSucceeds ==
  (last.op = "ComposeArgs" /\ last.ok
     /\ ~is_atomic(last.pre, last.presyms[last.target])) =>
    LET edges == VariableEdges(last.pre, last.presyms[last.target])
    IN /\ Cardinality(EdgeVariables(last)) = Len(last.args)
       /\ \A k, l \in 1..Len(edges) :
            EdgeSource(last.pre, edges[k]) = EdgeSource(last.pre, edges[l]) =>
              nodes[edges[k].node].inputs[edges[k].slot] =
                nodes[edges[l].node].inputs[edges[l].slot]
       /\ \A k \in 1..Len(edges) :
            \E i \in 1..Len(last.args) :
              nodes[edges[k].node].inputs[edges[k].slot] = ArgSymsOf(last)[i][1]

\* A composite target with as many variables as arguments, each argument of
\* one return, rejected.
C5_Witness ==
  /\ last.op = "ComposeArgs" /\ Composable(last)
  /\ ~is_atomic(last.pre, last.presyms[last.target])
  /\ Len(last.args) > 0
  /\ Cardinality(EdgeVariables(last)) = Len(last.args)
  /\ \A i \in 1..Len(last.args) : NumReturns(ArgSymsOf(last)[i]) = 1
  /\ ~last.ok

\* The precondition of C6: a keyword Compose on a composable atomic target
\* in which every key is a declared argument and every value has one return.
KeywordAtomicCase(c) ==
  /\ c.op = "ComposeKwargs"
  /\ Composable(c)
  /\ is_atomic(c.pre, c.presyms[c.target])
  /\ DOMAIN c.kwargs \subseteq Range(OpListArguments[c.pre[c.presyms[c.target][1].source].op])
  /\ \A k \in DOMAIN c.kwargs : NumReturns(c.presyms[c.kwargs[k]]) = 1

\* The name the claim gives the placeholder of declared argument r.
ExpectedPlaceholder(c, r) == IF c.name = "" THEN r ELSE c.name \o "_" \o r

\* Input slot i of the target of c is bound as C6 says.
SlotBound(c, H, i) ==
  LET head == c.presyms[c.target][1].source
      r == OpListArguments[c.pre[head].op][i]
      e == H[head].inputs[i]
  IN IF r \in DOMAIN c.kwargs THEN e = c.presyms[c.kwargs[r]][1]
     ELSE /\ e.source > Len(c.pre)
          /\ e.index = 0
          /\ is_variable(H, e.source)
          /\ H[e.source].name = ExpectedPlaceholder(c, r)

ExpectedPlaceholders(c) ==
  LET req == OpListArguments[c.pre[c.presyms[c.target][1].source].op]
      unbound == SelectSeq(req, LAMBDA r : r \notin DOMAIN c.kwargs)
  IN [i \in 1..Len(unbound) |-> ExpectedPlaceholder(c, unbound[i])]

\* The original statement of C6: ListArguments of the result is exactly the
\* placeholder names.
C6_ListArgumentsExactlyPlaceholders ==
  KeywordAtomicCase(last) =>
    /\ last.ok
    /\ \A i \in 1..Len(ExpectedPlaceholders(last)) + Cardinality(DOMAIN last.kwargs) :
         SlotBound(last, nodes, i)
    /\ ListArguments(nodes, last.presyms[last.target]) = ExpectedPlaceholders(last)

(***************************************************************************)
(* C6.  Keyword Compose on an atomic target with every key a declared      *)
(* argument (and every value of one return) succeeds; slot i is bound to   *)
(* the head of kwargs[r_i] or to a fresh variable named by the placeholder *)
(* rule; ListArguments of the result lists, in traversal order, the free   *)
(* variables of the bound arguments together with the placeholders: the    *)
(* fresh ones are the placeholder names in declared order, the others are  *)
(* the variables reachable from the bound arguments, and the list is       *)
(* exactly the placeholder names when no bound argument has a variable.    *)
(***************************************************************************)
C6_KeywordAtomicCompose ==
  KeywordAtomicCase(last) =>
    LET s == last.presyms[last.target]
        req == OpListArguments[last.pre[s[1].source].op]
        listed == VariablesOf(nodes, DFSVisit(nodes, s))
        fresh == SelectSeq(listed, LAMBDA n : n > Len(last.pre))
        others == SelectSeq(listed, LAMBDA n : n <= Len(last.pre))
    IN /\ last.ok
       /\ Len(nodes[s[1].source].inputs) = Len(req)
       /\ \A i \in 1..Len(req) : SlotBound(last, nodes, i)
       /\ ListArguments(nodes, s) = NamesOf(nodes, listed)
       /\ NamesOf(nodes, fresh) = ExpectedPlaceholders(last)
       /\ Range(others) = {n \in ArgNodes(last) : is_variable(last.pre, n)}
       /\ Range(others) = {} => ListArguments(nodes, s) = ExpectedPlaceholders(last)

\* fc.Compose({"data": x}, "fc"): the result lists x before the placeholder.
C6_Witness ==
  /\ KeywordAtomicCase(last) /\ last.ok
  /\ DOMAIN last.kwargs = {"data"}
  /\ last.name = "fc"
  /\ ListArguments(nodes, last.presyms[last.target]) = <<"x", "fc_weight">>

\* The call before the last one, when there is one.
prev == IF Len(calls) >= 2 THEN calls[Len(calls) - 1] ELSE NoCall

\* The last call acts on the gradient Symbol G that the call before it made.
OnGradient == prev.op = "Grad" /\ prev.ok /\ last.target = prev.res

\* The original statement of C7: Compose on G changes no node of z.
C7_GradientDoesNotAlias ==
  (OnGradient /\ IsCompose(last)) =>
    Intact(nodes, last.pre, Reachable(last.pre, last.presyms[prev.target]))

(***************************************************************************)
(* C7.  Grad changes no node that existed before it and no Symbol; the     *)
(* gradient Symbol G shares the forward nodes of z, so an in-place Compose *)
(* on G changes at most nodes reachable from G (which may be nodes of z),  *)
(* while operator() on G, which composes a copy, changes no node of z.     *)
(***************************************************************************)
C7_GradientSharesForwardNodes ==
  /\ last.op = "Grad" =>
       /\ \A n \in 1..Len(last.pre) : nodes[n] = last.pre[n]
       /\ \A i \in 1..Len(last.presyms) : syms[i] = last.presyms[i]
  /\ (OnGradient /\ IsCompose(last)) =>
       \A n \in 1..Len(last.pre) :
         SameNode(nodes, last.pre, n) \/ n \in Reachable(last.pre, last.presyms[last.target])
  /\ (OnGradient /\ IsCall(last)) =>
       Intact(nodes, last.pre, Reachable(last.pre, last.presyms[prev.target]))

\* A Compose on G = z.Grad(wrt) that rewired an input edge of a node of z.
C7_Witness ==
  /\ OnGradient /\ IsCompose(last) /\ last.ok
  /\ \E n \in Reachable(last.pre, last.presyms[prev.target]) :
       nodes[n].inputs # last.pre[n].inputs

\* operator() on G = z.Grad(wrt) succeeded where G reaches nodes of z.
C7_CallWitness ==
  /\ OnGradient /\ IsCall(last) /\ last.ok
  /\ Reachable(last.pre, last.presyms[last.target])
       \cap Reachable(last.pre, last.presyms[prev.target]) # {}

(***************************************************************************)
(* C8.  ToStaticGraph gives the N reachable nodes the ids 0..N-1 in        *)
(* traversal order; canonical node id(n) has n's name and n's inputs with  *)
(* sources replaced by ids, heads likewise, arg_nodes lists the ids of the *)
(* variable nodes in traversal order, and backward_source_id is -1 without *)
(* a backward source and the id assigned to the backward source otherwise. *)
(***************************************************************************)
C8_FaithfulLowering ==
  last.op = "ToStaticGraph" =>
    LET H == last.pre
        s == last.presyms[last.target]
        order == DFSVisit(H, s)
        g == last.out
        id(n) == IndexOf(order, n) - 1
    IN /\ Len(g.nodes) = Cardinality(Reachable(H, s))
       /\ Len(order) = Len(g.nodes)
       /\ \A k \in 1..Len(order) :
            LET n == order[k]
            IN /\ g.nodes[k].name = H[n].name
               /\ g.nodes[k].inputs =
                    [j \in 1..Len(H[n].inputs) |->
                       [source_id |-> id(H[n].inputs[j].source),
                        index |-> H[n].inputs[j].index]]
               /\ IF H[n].backward_source_node = 0
                  THEN g.nodes[k].backward_source_id = -1
                  ELSE /\ H[n].backward_source_node \in Range(order)
                       /\ g.nodes[k].backward_source_id = id(H[n].backward_source_node)
       /\ g.heads = [h \in 1..Len(s) |-> [source_id |-> id(s[h].source), index |-> s[h].index]]
       /\ g.arg_nodes = [i \in 1..Len(VariablesOf(H, order)) |-> id(VariablesOf(H, order)[i])]

\* The part of C8 that the code keeps: everything but the backward source
\* of a gradient node whose backward source is not reachable.
C8_LoweringButBackwardSource ==
  last.op = "ToStaticGraph" =>
    LET H == last.pre
        s == last.presyms[last.target]
        order == DFSVisit(H, s)
        g == last.out
        id(n) == IndexOf(order, n) - 1
    IN /\ Len(g.nodes) = Cardinality(Reachable(H, s))
       /\ \A k \in 1..Len(order) :
            /\ g.nodes[k].name = H[order[k]].name
            /\ Len(g.nodes[k].inputs) = Len(H[order[k]].inputs)
            /\ \A j \in 1..Len(H[order[k]].inputs) :
                 /\ order[g.nodes[k].inputs[j].source_id + 1] = H[order[k]].inputs[j].source
                 /\ g.nodes[k].inputs[j].index = H[order[k]].inputs[j].index
            /\ H[order[k]].backward_source_node = 0 => g.nodes[k].backward_source_id = -1
            /\ H[order[k]].backward_source_node \in Range(order) =>
                 g.nodes[k].backward_source_id = id(H[order[k]].backward_source_node)
       /\ \A h \in 1..Len(s) : order[g.heads[h].source_id + 1] = s[h].source

\* A lowered gradient node whose backward source was not visited and whose
\* backward_source_id is 0, the id of another node.
C8_Witness ==
  /\ last.op = "ToStaticGraph"
  /\ \E k \in 1..Len(last.out.nodes) :
       LET n == DFSVisit(last.pre, last.presyms[last.target])[k]
       IN /\ last.pre[n].backward_source_node # 0
          /\ last.pre[n].backward_source_node
               \notin Range(DFSVisit(last.pre, last.presyms[last.target]))
          /\ last.out.nodes[k].backward_source_id = 0

(***************************************************************************)
(* C9.  For every Symbol, atomic or composite, ListArguments() has the     *)
(* length of ToStaticGraph's arg_nodes and its i-th name is the name of    *)
(* canonical node arg_nodes[i]; hence the index Grad takes from the        *)
(* argument-name map is within the per-argument gradient list.             *)
(***************************************************************************)
C9_ListArgumentsAgreesWithArgNodes ==
  /\ last.op = "ListArguments" =>
       LET g == ToStaticGraph(last.pre, last.presyms[last.target])
       IN /\ Len(last.out) = Len(g.arg_nodes)
          /\ \A i \in 1..Len(g.arg_nodes) : last.out[i] = g.nodes[g.arg_nodes[i] + 1].name
  /\ last.op = "Grad" => ~GradReadsBeyond(last.pre, last.presyms[last.target], last.wrt)

\* The part of C9 that the code keeps: the agreement for composite Symbols.
C9_AgreesForComposite ==
  (last.op = "ListArguments" /\ ~is_atomic(last.pre, last.presyms[last.target])) =>
    LET g == ToStaticGraph(last.pre, last.presyms[last.target])
    IN /\ Len(last.out) = Len(g.arg_nodes)
       /\ \A i \in 1..Len(g.arg_nodes) : last.out[i] = g.nodes[g.arg_nodes[i] + 1].name

\* ListArguments of an atomic Symbol: two names, where arg_nodes is empty.
C9_Witness ==
  /\ last.op = "ListArguments"
  /\ is_atomic(last.pre, last.presyms[last.target])
  /\ Len(last.out) = 2
  /\ ToStaticGraph(last.pre, last.presyms[last.target]).arg_nodes = <<>>

\* No node of S reaches itself through input edges.
IsDAG(H, S) == \A n \in S : n \notin Closure(H, Range(Sources(H[n].inputs)))

(***************************************************************************)
(* C10.  On a Symbol whose graph is a DAG, DFSVisit calls the visitor      *)
(* exactly once for each node reachable from the heads through input       *)
(* edges and for no other node.                                            *)
(***************************************************************************)
C10_VisitsEachReachableNodeOnce ==
  (last.op = "DFSVisit"
     /\ IsDAG(last.pre, Reachable(last.pre, last.presyms[last.target]))) =>
    /\ NoDuplicates(last.out)
    /\ Range(last.out) = Reachable(last.pre, last.presyms[last.target])
    /\ Len(last.out) = Cardinality(Reachable(last.pre, last.presyms[last.target]))

\* DFSVisit on a DAG in which one node is an input of two visited nodes.
C10_Witness ==
  /\ last.op = "DFSVisit"
  /\ IsDAG(last.pre, Reachable(last.pre, last.presyms[last.target]))
  /\ \E n \in Range(last.out) :
       Cardinality({m \in Range(last.out) : n \in Range(Sources(last.pre[m].inputs))}) >= 2

\* DFSVisit on a Symbol with two heads on one node.
C10_WitnessHeads ==
  /\ last.op = "DFSVisit"
  /\ \E h, k \in 1..Len(last.presyms[last.target]) :
       h # k /\ last.presyms[last.target][h].source = last.presyms[last.target][k].source
  /\ Len(last.out) = 1

\* The nodes that are marked (pushed) just before the k-th call of the
\* visitor: the heads and the inputs of the nodes visited earlier.
MarkedBefore(H, s, order, k) ==
  Range(Sources(s)) \cup UNION {Range(Sources(H[order[l]].inputs)) : l \in 1..(k - 1)}

\* Every visited node is a head or an input of a node visited before it.
VisitedAfterDiscovery(H, s, order) ==
  \A k \in 1..Len(order) : order[k] \in MarkedBefore(H, s, order, k)

====
